---- MODULE Spec2Model ----
(***************************************************************************)
(* State-machine model of the three HTTP probe scripts of the repository:  *)
(*   backend_test.py                 class BackendTester                   *)
(*   detailed_422_investigation.py   class DetailedInvestigator            *)
(*   frontend_simulation_test.py     class FrontendSimulator               *)
(* One behaviour is one life of one object of one of the classes.  The     *)
(* object is driven either by the script's __main__ block (driver "main":  *)
(* the runner method sequences the other methods) or by a client that      *)
(* calls the public methods in any order (driver "api").  The remote       *)
(* service is the environment: every request draws its answer from a small *)
(* set of responses.                                                       *)
(***************************************************************************)
EXTENDS Integers, Sequences, FiniteSets, TLC

VARIABLES
    prog,               \* which script's object this behaviour is about
    driver,             \* "main" (the __main__ block) or "api" (free method calls)
    pc,                 \* position of the main thread
    idx,                \* loop index of the main thread (variation / start / join loops)
    auth_token,         \* self.auth_token
    hdr,                \* Authorization entry of self.session.headers (NoHeader when absent)
    test_results,       \* BackendTester.test_results
    sent,               \* every HTTP request issued so far, in order
    calls,              \* the methods invoked so far, in order
    last,               \* what the last finished method returned (or raised)
    ret,                \* what the runner returned ("none" while it runs)
    faults,             \* number of non-nominal responses drawn so far
    success,            \* run_simulation's local `success`
    test_counter,       \* DetailedInvestigator.test_counter
    entry_counter,      \* test_counter when test_cases (l.47-165) was built
    variation_results,  \* test_staff_add_with_variations's local `results`
    wst,                \* state of each burst worker thread
    results_queue,      \* test_concurrent_requests's queue.Queue
    concurrent_results, \* test_concurrent_requests's local list
    staff_answer        \* the answer the main thread's last staff-creation case
                        \* got (<< >> when it sent nothing)

vars == <<prog, driver, pc, idx, auth_token, hdr, test_results, sent, calls, last,
          ret, faults, success, test_counter, entry_counter, variation_results,
          wst, results_queue, concurrent_results, staff_answer>>

(***************************************************************************)
(* Bounds of the model.                                                    *)
(***************************************************************************)
\* Method calls a free client makes on one object.
MaxCalls == 3
\* Responses of one behaviour that differ from the nominal answer of their endpoint.
MaxFaults == 1

(***************************************************************************)
(* Python values.                                                          *)
(***************************************************************************)
\* Python's None, kept apart from every string a server can send.
None == "<None>"
\* session.headers holds no Authorization entry.
NoHeader == "<absent>"
\* The marker the investigator stores in place of a status code.
EXCEPTION == 0

\* str(x) inside an f-string: None prints as the text None.
Str(x) == IF x = None THEN "None" ELSE x

\* f"Bearer {self.auth_token}"
Bearer(token) == "Bearer " \o Str(token)

\* Python truthiness of a token: None and "" are falsy.
Truthy(token) == token # None /\ token # ""

(***************************************************************************)
(* The module-level names backend_test.py defines.  Reading any other      *)
(* global raises NameError.                                                *)
(***************************************************************************)
Defined == {"BASE_URL", "TEST_USER_EMAIL", "TEST_USER_PASSWORD"}

NameError(names) == ~(names \subseteq Defined)

(***************************************************************************)
(* Responses of the remote service.  raised: the call raised instead of    *)
(* returning; json: response.json() gives a JSON object; token: the body's *)
(* access_token (None when absent); dup: the body's detail holds           *)
(* "already registered".                                                   *)
(***************************************************************************)
R(st, js, tok, dp) ==
    [raised |-> FALSE, status |-> st, json |-> js, token |-> tok, dup |-> dp]

Raised == [raised |-> TRUE, status |-> EXCEPTION, json |-> FALSE, token |-> None, dup |-> FALSE]

TokenNominal == R(200, TRUE, "tokA", FALSE)
TokenResponses ==
    { TokenNominal, R(200, TRUE, "tokB", FALSE), R(200, TRUE, "", FALSE),
      R(200, TRUE, None, FALSE), R(200, FALSE, None, FALSE),
      R(401, TRUE, None, FALSE), Raised }

OkNominal == R(200, TRUE, None, FALSE)
UsersResponses ==
    { OkNominal, R(200, FALSE, None, FALSE), R(401, TRUE, None, FALSE),
      R(500, FALSE, None, FALSE), Raised }

StaffResponses ==
    { OkNominal, R(400, TRUE, None, TRUE), R(400, TRUE, None, FALSE),
      R(422, TRUE, None, FALSE), R(500, TRUE, None, FALSE),
      R(500, FALSE, None, FALSE), Raised }

NoAuthNominal == R(401, TRUE, None, FALSE)
NoAuthResponses ==
    { NoAuthNominal, OkNominal, R(500, FALSE, None, FALSE), Raised }

\* The responses the budget of non-nominal answers still allows.
Draw(set, nominal) == { r \in set : r = nominal \/ faults < MaxFaults }
Cost(r, nominal) == IF r = nominal THEN 0 ELSE 1

\* One issued request: its endpoint, its Authorization header, the username of
\* its body and the thread that sent it (-1: the main thread).
Req(op, auth, user, by) == [op |-> op, auth |-> auth, user |-> user, by |-> by]


(***************************************************************************)
(* Who may run a method now: the runner, when it has reached the call, or  *)
(* a free client between two calls.                                        *)
(***************************************************************************)
CanCall(m) ==
    IF driver = "main" THEN pc = m ELSE pc = "idle" /\ Len(calls) < MaxCalls

(***************************************************************************)
(* backend_test.py                                                         *)
(***************************************************************************)
\* BackendTester.log_test: one record appended, nothing else touched.
log_test(results, test_name, ok) ==
    Append(results, [test |-> test_name, success |-> ok])

\* The failures the summary counts (l.250-252).
failed_tests(results) ==
    Cardinality({ n \in 1..Len(results) : ~results[n].success })

\* A runner whose early exits report success.
StopTestsReturningTrue == [pc |-> "done", ret |-> "True"]

\* What run_all_tests does when a step gives up before the summary (l.229, 233, 237).
StopTests == [pc |-> "done", ret |-> "False"]

\* A runner that goes on to the login whatever the registration returned.
AfterRegistrationContinue(r) == [pc |-> "test_login", ret |-> "none"]

\* l.227-229: the runner stops unless the registration returned True.
AfterRegistration(r) ==
    IF r = "True" THEN [pc |-> "test_login", ret |-> "none"] ELSE StopTests

\* run_all_tests after method m has returned r with the results as given: the
\* next call, or the value returned.  A NameError leaves the runner uncaught.
run_all_tests(m, r, results) ==
    CASE m = "test_register_user" -> AfterRegistration(r)
      [] m = "test_login" ->
            IF r = "True" THEN [pc |-> "test_get_users", ret |-> "none"] ELSE StopTests
      [] m = "test_get_users" ->
            IF r = "True" THEN [pc |-> "test_add_staff_valid_data", ret |-> "none"]
            ELSE StopTests
      [] m = "test_add_staff_valid_data" ->
            [pc |-> "test_add_staff_missing_fields", ret |-> "none"]
      [] m = "test_add_staff_missing_fields" ->
            IF r = "NameError" THEN [pc |-> "done", ret |-> "NameError"]
            ELSE [pc |-> "test_add_staff_invalid_data", ret |-> "none"]
      [] m = "test_add_staff_invalid_data" ->
            IF r = "NameError" THEN [pc |-> "done", ret |-> "NameError"]
            ELSE [pc |-> "test_add_staff_without_auth", ret |-> "none"]
      [] m = "test_add_staff_without_auth" ->
            [pc |-> "done",
             ret |-> IF failed_tests(results) = 0 THEN "True" ELSE "False"]

\* Method m of the tester returns r: control goes back to its caller.
BackendReturn(m, r, results) ==
    /\ last' = r
    /\ calls' = Append(calls, m)
    /\ IF driver = "main"
       THEN /\ pc' = run_all_tests(m, r, results).pc
            /\ ret' = run_all_tests(m, r, results).ret
       ELSE /\ pc' = "idle"
            /\ ret' = ret

BackendFrame ==
    UNCHANGED <<prog, driver, idx, success, test_counter, entry_counter,
                variation_results, wst, results_queue, concurrent_results>>

\* What the cases that are no valid-payload staff creation leave alone as well.
OtherCaseFrame == UNCHANGED staff_answer

Py(b) == IF b THEN "True" ELSE "False"

\* 200, or 400 whose detail says "already registered" (l.50-64, l.126-144).
RegisteredOk(r) ==
    /\ ~r.raised
    /\ \/ r.status = 200
       \/ r.status = 400 /\ r.json /\ r.dup

test_register_user ==
    /\ prog = "backend"
    /\ CanCall("test_register_user")
    /\ IF NameError({"TEST_USER_EMAIL", "TEST_USER_PASSWORD",
                     "TEST_USER_FULL_NAME", "TEST_ORG_NAME"})
       THEN /\ test_results' = log_test(test_results, "User Registration", FALSE)
            /\ UNCHANGED <<sent, faults>>
            /\ BackendReturn("test_register_user", "False",
                             log_test(test_results, "User Registration", FALSE))
       ELSE \E r \in Draw(StaffResponses, OkNominal) :
            /\ faults' = faults + Cost(r, OkNominal)
            /\ sent' = Append(sent, Req("POST /register", hdr, "TEST_USER_EMAIL", -1))
            /\ test_results' = log_test(test_results, "User Registration", RegisteredOk(r))
            /\ BackendReturn("test_register_user", Py(RegisteredOk(r)),
                             log_test(test_results, "User Registration", RegisteredOk(r)))
    /\ UNCHANGED <<auth_token, hdr>>
    /\ BackendFrame
    /\ OtherCaseFrame

\* The login answer the scripts accept: status 200 with a JSON object (l.81-83).
LoginOk(r) == ~r.raised /\ r.status = 200 /\ r.json

test_login ==
    /\ prog = "backend"
    /\ CanCall("test_login")
    /\ \E r \in Draw(TokenResponses, TokenNominal) :
        /\ faults' = faults + Cost(r, TokenNominal)
        /\ sent' = Append(sent, Req("POST /token", hdr, "test@test.com", -1))
        /\ auth_token' = IF LoginOk(r) THEN r.token ELSE auth_token
        /\ hdr' = IF LoginOk(r) THEN Bearer(r.token) ELSE hdr
        /\ test_results' = log_test(test_results, "User Login", LoginOk(r))
        /\ BackendReturn("test_login", Py(LoginOk(r)),
                         log_test(test_results, "User Login", LoginOk(r)))
    /\ BackendFrame
    /\ OtherCaseFrame

\* 200 with a body len() accepts (l.100-103, frontend l.121-124).
UsersOk(r) == ~r.raised /\ r.status = 200 /\ r.json

test_get_users ==
    /\ prog = "backend"
    /\ CanCall("test_get_users")
    /\ \E r \in Draw(UsersResponses, OkNominal) :
        /\ faults' = faults + Cost(r, OkNominal)
        /\ sent' = Append(sent, Req("GET /users", hdr, "", -1))
        /\ test_results' = log_test(test_results, "Get Users", UsersOk(r))
        /\ BackendReturn("test_get_users", Py(UsersOk(r)),
                         log_test(test_results, "Get Users", UsersOk(r)))
    /\ UNCHANGED <<auth_token, hdr>>
    /\ BackendFrame
    /\ OtherCaseFrame

\* l.126-144: 200 with a JSON body, or 400 "already registered".
ValidDataOk(r) ==
    /\ ~r.raised
    /\ r.json
    /\ \/ r.status = 200
       \/ r.status = 400 /\ r.dup

test_add_staff_valid_data ==
    /\ prog = "backend"
    /\ CanCall("test_add_staff_valid_data")
    /\ IF NameError({"TEST_STAFF_EMAIL", "TEST_STAFF_PASSWORD", "TEST_STAFF_FULL_NAME"})
       THEN /\ test_results' = log_test(test_results, "Add Staff - Valid Data", FALSE)
            /\ UNCHANGED <<sent, faults>>
            /\ staff_answer' = << >>
            /\ BackendReturn("test_add_staff_valid_data", "False",
                             log_test(test_results, "Add Staff - Valid Data", FALSE))
       ELSE \E r \in Draw(StaffResponses, OkNominal) :
            /\ faults' = faults + Cost(r, OkNominal)
            /\ sent' = Append(sent, Req("POST /staff/add", hdr, "TEST_STAFF_EMAIL", -1))
            /\ staff_answer' = << r >>
            /\ test_results' = log_test(test_results, "Add Staff - Valid Data", ValidDataOk(r))
            /\ BackendReturn("test_add_staff_valid_data", Py(ValidDataOk(r)),
                             log_test(test_results, "Add Staff - Valid Data", ValidDataOk(r)))
    /\ UNCHANGED <<auth_token, hdr>>
    /\ BackendFrame


\* The records a matrix method logs for the answers rs, one per variant, in
\* order: a pass if and only if the status is 422 (l.159-169, l.179-189).
RECURSIVE MatrixResults(_, _, _, _)
MatrixResults(results, label, rs, n) ==
    IF n > Len(rs) THEN results
    ELSE MatrixResults(
            log_test(results, label \o ToString(n),
                     ~rs[n].raised /\ rs[n].status = 422),
            label, rs, n + 1)

RECURSIVE MatrixRequests(_, _, _)
MatrixRequests(log, n, count) ==
    IF n > count THEN log
    ELSE MatrixRequests(Append(log, Req("POST /staff/add", hdr, "TEST_STAFF_EMAIL", -1)),
                        n + 1, count)

\* Both matrix methods build test_cases from module constants before their
\* try block: an undefined one raises NameError out of the method.
Matrix(m, label, count, names) ==
    /\ prog = "backend"
    /\ CanCall(m)
    /\ IF NameError(names)
       THEN /\ UNCHANGED <<test_results, sent, faults>>
            /\ BackendReturn(m, "NameError", test_results)
       ELSE \E rs \in [1..count -> StaffResponses] :
            /\ faults' = faults
            /\ sent' = MatrixRequests(sent, 1, count)
            /\ test_results' = MatrixResults(test_results, label, rs, 1)
            /\ BackendReturn(m, "None", MatrixResults(test_results, label, rs, 1))
    /\ UNCHANGED <<auth_token, hdr>>
    /\ BackendFrame
    /\ OtherCaseFrame

test_add_staff_missing_fields ==
    Matrix("test_add_staff_missing_fields", "Add Staff - Missing Fields ", 4,
           {"TEST_STAFF_EMAIL", "TEST_STAFF_PASSWORD", "TEST_STAFF_FULL_NAME"})

test_add_staff_invalid_data ==
    Matrix("test_add_staff_invalid_data", "Add Staff - Invalid Data ", 3,
           {"TEST_STAFF_EMAIL", "TEST_STAFF_PASSWORD", "TEST_STAFF_FULL_NAME"})

\* l.191-219: the Authorization entry is deleted, the request is sent, and the
\* saved headers are put back only when the request returned.
test_add_staff_without_auth ==
    /\ prog = "backend"
    /\ CanCall("test_add_staff_without_auth")
    /\ \E r \in Draw(NoAuthResponses, NoAuthNominal) :
        /\ faults' = faults + Cost(r, NoAuthNominal)
        /\ sent' = Append(sent, Req("POST /staff/add", NoHeader, "noauth@example.com", -1))
        /\ hdr' = IF r.raised THEN NoHeader ELSE hdr
        /\ test_results' = log_test(test_results, "Add Staff - No Auth",
                                    ~r.raised /\ r.status = 401)
        /\ BackendReturn("test_add_staff_without_auth",
                         Py(~r.raised /\ r.status = 401),
                         log_test(test_results, "Add Staff - No Auth",
                                  ~r.raised /\ r.status = 401))
    /\ UNCHANGED auth_token
    /\ BackendFrame
    /\ OtherCaseFrame

(***************************************************************************)
(* frontend_simulation_test.py                                             *)
(***************************************************************************)
\* run_simulation after method m has returned r (l.211-231).
run_simulation(m, r) ==
    CASE m = "simulate_login" ->
            IF r = "True" THEN [pc |-> "test_authentication_validity", ret |-> "none"]
            ELSE [pc |-> "done", ret |-> "False"]
      [] m = "test_authentication_validity" ->
            IF r = "True" THEN [pc |-> "simulate_staff_add_request", ret |-> "none"]
            ELSE [pc |-> "done", ret |-> "False"]
      [] m = "simulate_staff_add_request" ->
            [pc |-> "test_different_payloads", ret |-> "none"]
      [] m = "test_different_payloads" ->
            [pc |-> "done", ret |-> success]

FrontendReturn(m, r) ==
    /\ last' = r
    /\ calls' = Append(calls, m)
    /\ IF driver = "main"
       THEN /\ pc' = run_simulation(m, r).pc
            /\ ret' = run_simulation(m, r).ret
       ELSE /\ pc' = "idle"
            /\ ret' = ret

FrontendFrame ==
    UNCHANGED <<prog, driver, idx, hdr, test_results, test_counter, entry_counter,
                variation_results, wst, results_queue, concurrent_results>>

\* l.35-39: the token is stored first, then its first 20 characters are
\* printed, which raises TypeError on None.
simulate_login ==
    /\ prog = "frontend"
    /\ CanCall("simulate_login")
    /\ \E r \in Draw(TokenResponses, TokenNominal) :
        /\ faults' = faults + Cost(r, TokenNominal)
        /\ sent' = Append(sent, Req("POST /token", NoHeader, "testadmin@example.com", -1))
        /\ auth_token' = IF LoginOk(r) THEN r.token ELSE auth_token
        /\ FrontendReturn("simulate_login", Py(LoginOk(r) /\ r.token # None))
    /\ UNCHANGED success
    /\ FrontendFrame
    /\ OtherCaseFrame

\* Operations that never look at the token before sending.
HasTokenUnchecked == TRUE

\* The guard of the three operations that need a token (l.52, l.110, l.140).
HasToken == Truthy(auth_token)

\* l.89-100: 200 and every 400 count as success.
StaffAddOk(r) == ~r.raised /\ r.status \in {200, 400}

simulate_staff_add_request ==
    /\ prog = "frontend"
    /\ CanCall("simulate_staff_add_request")
    /\ IF ~HasToken
       THEN /\ UNCHANGED <<sent, faults>>
            /\ staff_answer' = << >>
            /\ success' = IF driver = "main" THEN "False" ELSE success
            /\ FrontendReturn("simulate_staff_add_request", "False")
       ELSE \E r \in Draw(StaffResponses, OkNominal) :
            /\ faults' = faults + Cost(r, OkNominal)
            /\ sent' = Append(sent, Req("POST /staff/add", Bearer(auth_token),
                                        "newfrontendstaff@example.com", -1))
            /\ staff_answer' = << r >>
            /\ success' = IF driver = "main" THEN Py(StaffAddOk(r)) ELSE success
            /\ FrontendReturn("simulate_staff_add_request", Py(StaffAddOk(r)))
    /\ UNCHANGED auth_token
    /\ FrontendFrame

test_authentication_validity ==
    /\ prog = "frontend"
    /\ CanCall("test_authentication_validity")
    /\ IF ~HasToken
       THEN /\ UNCHANGED <<sent, faults>>
            /\ FrontendReturn("test_authentication_validity", "False")
       ELSE \E r \in Draw(UsersResponses, OkNominal) :
            /\ faults' = faults + Cost(r, OkNominal)
            /\ sent' = Append(sent, Req("GET /users", Bearer(auth_token), "", -1))
            /\ FrontendReturn("test_authentication_validity", Py(UsersOk(r)))
    /\ UNCHANGED <<auth_token, success>>
    /\ FrontendFrame
    /\ OtherCaseFrame

\* The usernames of test_payloads (l.149-182).
PayloadUsers == <<"test1@example.com", "", "test2@example.com", "test3@example.com">>

RECURSIVE PayloadRequests(_, _)
PayloadRequests(log, n) ==
    IF n > Len(PayloadUsers) THEN log
    ELSE PayloadRequests(
            Append(log, Req("POST /staff/add", Bearer(auth_token), PayloadUsers[n], -1)),
            n + 1)

\* l.136-204: four requests whose answers are only printed.
test_different_payloads ==
    /\ prog = "frontend"
    /\ CanCall("test_different_payloads")
    /\ IF ~HasToken
       THEN UNCHANGED sent
       ELSE sent' = PayloadRequests(sent, 1)
    /\ FrontendReturn("test_different_payloads", "None")
    /\ UNCHANGED <<auth_token, success, faults>>
    /\ FrontendFrame
    /\ OtherCaseFrame


(***************************************************************************)
(* detailed_422_investigation.py                                           *)
(***************************************************************************)
\* range(5) of the start loop (l.268).
NumThreads == 5
Threads == 0..(NumThreads - 1)

\* The names of test_cases, in order (l.47-165).
VariationNames ==
    << "Standard valid request", "Empty string values", "None values",
       "Missing fields", "Wrong data types", "Invalid email format",
       "Very long strings", "Special characters", "Wrong Content-Type",
       "No Content-Type" >>

NumVariations == Len(VariationNames)

\* f"test{n}@example.com"
TestUser(n) == "test" \o ToString(n) \o "@example.com"

\* The username of case i (from 0) as test_cases holds it, built when the
\* counter was c: the f-strings of l.51, l.87, l.145 and l.157 are evaluated
\* when the list is built.
VariationUser(i, c) ==
    CASE i = 0 -> TestUser(c)
      [] i = 1 -> ""
      [] i = 2 -> "None"
      [] i = 3 -> TestUser(c + 1)
      [] i = 4 -> "123"
      [] i = 5 -> "not-an-email"
      [] i = 6 -> "aaa...@example.com"
      [] i = 7 -> "test+special@example.com"
      [] i = 8 -> TestUser(c + 2)
      [] i = 9 -> TestUser(c + 3)

\* t in s, for two str values.
Contains(s, t) ==
    \E k \in 1..(Len(s) - Len(t) + 1) : SubSeq(s, k, k + Len(t) - 1) = t

\* l.175-177: a username holding the text 'test{' is replaced by the one of the
\* counter k; any other username (the values that are no str among them) is
\* sent as it is.
Rewritten(user, k) ==
    IF Contains(user, "test{") THEN TestUser(k) ELSE user

DetailedFrame == UNCHANGED <<prog, driver, hdr, test_results, success>>

\* l.22-42: True on every 200 with a JSON object, with or without access_token.
get_auth_token ==
    /\ prog = "detailed"
    /\ pc = "get_auth_token"
    /\ \E r \in Draw(TokenResponses, TokenNominal) :
        /\ faults' = faults + Cost(r, TokenNominal)
        /\ sent' = Append(sent, Req("POST /token", NoHeader, "testadmin@example.com", -1))
        /\ auth_token' = IF LoginOk(r) THEN r.token ELSE auth_token
        /\ last' = Py(LoginOk(r))
        /\ pc' = IF LoginOk(r) THEN "test_staff_add_with_variations" ELSE "done"
        /\ ret' = IF LoginOk(r) THEN "none" ELSE "False"
    /\ calls' = Append(calls, "get_auth_token")
    /\ UNCHANGED <<idx, test_counter, entry_counter, variation_results, wst,
                   results_queue, concurrent_results>>
    /\ DetailedFrame
    /\ OtherCaseFrame

\* l.47-167: test_cases is built from the counter and the token as they are
\* now, and results starts empty.
test_staff_add_with_variations ==
    /\ prog = "detailed"
    /\ pc = "test_staff_add_with_variations"
    /\ entry_counter' = test_counter
    /\ variation_results' = << >>
    /\ idx' = 0
    /\ pc' = "variation"
    /\ calls' = Append(calls, "test_staff_add_with_variations")
    /\ UNCHANGED <<auth_token, sent, last, ret, faults, test_counter, wst,
                   results_queue, concurrent_results>>
    /\ DetailedFrame
    /\ OtherCaseFrame

\* The record of one variation (l.185-191, l.216-221).
VariationResult(name, r) ==
    IF r.raised
    THEN [test_name |-> name, status_code |-> EXCEPTION, success |-> FALSE]
    ELSE [test_name |-> name, status_code |-> r.status,
          success |-> r.status \in {200, 400}]

\* One pass of the loop of l.169-221.
variation ==
    /\ prog = "detailed"
    /\ pc = "variation"
    /\ test_counter' = test_counter + 1
    /\ \E r \in Draw(StaffResponses, OkNominal) :
        /\ faults' = faults + Cost(r, OkNominal)
        /\ sent' = Append(sent, Req("POST /staff/add", Bearer(auth_token),
                                    Rewritten(VariationUser(idx, entry_counter),
                                              test_counter'), -1))
        /\ staff_answer' = << r >>
        /\ variation_results' =
              Append(variation_results, VariationResult(VariationNames[idx + 1], r))
    /\ IF idx + 1 < NumVariations
       THEN /\ idx' = idx + 1
            /\ pc' = "variation"
            /\ last' = last
       ELSE /\ idx' = 0
            /\ pc' = "test_concurrent_requests"
            /\ last' = "results"
    /\ UNCHANGED <<auth_token, calls, ret, entry_counter, wst, results_queue,
                   concurrent_results>>
    /\ DetailedFrame

\* l.225-232, l.267: a fresh queue and an empty thread list.
test_concurrent_requests ==
    /\ prog = "detailed"
    /\ pc = "test_concurrent_requests"
    /\ results_queue' = << >>
    /\ concurrent_results' = << >>
    /\ wst' = [t \in Threads |-> "new"]
    /\ idx' = 0
    /\ pc' = "start"
    /\ calls' = Append(calls, "test_concurrent_requests")
    /\ UNCHANGED <<auth_token, sent, last, ret, faults, test_counter, entry_counter,
                   variation_results>>
    /\ DetailedFrame
    /\ OtherCaseFrame

\* A start loop that stops one thread short.
StartAllButLast == NumThreads - 1

\* How many threads the start loop creates (l.268).
StartCount == NumThreads

\* l.268-271: thread idx is created and started.
thread_start ==
    /\ prog = "detailed"
    /\ pc = "start"
    /\ wst' = [wst EXCEPT ![idx] = "started"]
    /\ IF idx + 1 < StartCount
       THEN idx' = idx + 1 /\ pc' = "start"
       ELSE idx' = 0 /\ pc' = "join"
    /\ UNCHANGED <<auth_token, sent, calls, last, ret, faults, test_counter,
                   entry_counter, variation_results, results_queue, concurrent_results>>
    /\ DetailedFrame
    /\ OtherCaseFrame

\* A worker that builds its header without the token of the login.
WorkerHeadersNoToken(token) == Bearer(None)

\* The Authorization header of a worker's request (l.242-245).
WorkerHeaders(token) == Bearer(token)

\* A worker that stores its header in the headers of the shared session.
WorkerSessionUpdated(h, token) == Bearer(token)

\* The Authorization entry of self.session.headers after a worker's request
\* (l.247-251): the worker posts through requests.post with headers of its
\* own, so the shared session and its headers stay as they were.
WorkerSession(h, token) == h

\* What a worker never writes.
WorkerFrame == UNCHANGED <<prog, driver, test_results, success>>

\* The status a worker puts on the queue (l.253-264): evaluating
\* response.json() on a body that is no JSON raises before the put, and the
\* handler puts the EXCEPTION entry instead.
WorkerStatus(r) ==
    IF r.raised \/ (r.status # 422 /\ ~r.json) THEN EXCEPTION ELSE r.status

\* The entry worker t puts for the answer r.
WorkerEntry(t, r) == [thread_id |-> t, status_code |-> WorkerStatus(r)]

\* A queue that loses the entry of a failed request.
putUnlessException(q, entry) ==
    IF entry.status_code = EXCEPTION THEN q ELSE Append(q, entry)

\* queue.Queue.put: one entry appended under the queue's lock.
put(q, entry) == Append(q, entry)

\* l.234-264, the body of worker t.  Between its start and its put the worker
\* reads self.auth_token and touches nothing shared, so the request and the
\* put are one step; requests of workers appear in `sent` in that order.
make_request(t) ==
    /\ prog = "detailed"
    /\ wst[t] = "started"
    /\ \E r \in Draw(StaffResponses, OkNominal) :
        /\ faults' = faults + Cost(r, OkNominal)
        /\ sent' = Append(sent, Req("POST /staff/add", WorkerHeaders(auth_token),
                                    "concurrent" \o ToString(t) \o "@example.com", t))
        /\ results_queue' = put(results_queue, WorkerEntry(t, r))
    /\ wst' = [wst EXCEPT ![t] = "done"]
    /\ hdr' = WorkerSession(hdr, auth_token)
    /\ UNCHANGED <<pc, idx, auth_token, calls, last, ret, test_counter, entry_counter,
                   variation_results, concurrent_results>>
    /\ WorkerFrame
    /\ OtherCaseFrame

\* A join loop that stops one thread short.
JoinAllButLast == NumThreads - 1

\* How many threads the join loop waits for (l.274: every thread of the list).
JoinCount == NumThreads

\* l.274-275: thread.join() returns once thread idx has ended.
thread_join ==
    /\ prog = "detailed"
    /\ pc = "join"
    /\ wst[idx] = "done"
    /\ IF idx + 1 < JoinCount
       THEN idx' = idx + 1 /\ pc' = "join"
       ELSE idx' = 0 /\ pc' = "collect"
    /\ UNCHANGED <<auth_token, sent, calls, last, ret, faults, test_counter,
                   entry_counter, variation_results, wst, results_queue,
                   concurrent_results>>
    /\ DetailedFrame
    /\ OtherCaseFrame

\* l.279-282: one pass of the drain loop.
collect ==
    /\ prog = "detailed"
    /\ pc = "collect"
    /\ results_queue # << >>
    /\ concurrent_results' = Append(concurrent_results, Head(results_queue))
    /\ results_queue' = Tail(results_queue)
    /\ UNCHANGED <<pc, idx, auth_token, sent, calls, last, ret, faults, test_counter,
                   entry_counter, variation_results, wst>>
    /\ DetailedFrame
    /\ OtherCaseFrame

\* The entries of a result list whose status_code is 422 (l.310, l.324).
Count422(results) ==
    Cardinality({ n \in 1..Len(results) : results[n].status_code = 422 })

\* l.328: the value run_investigation returns.
InvestigationResult(variations, concurrent) ==
    Py(Count422(variations) = 0 /\ Count422(concurrent) = 0)

\* l.284, l.304-328: the drain loop ends on the empty queue, the summary is
\* printed and the run returns.
run_investigation ==
    /\ prog = "detailed"
    /\ pc = "collect"
    /\ results_queue = << >>
    /\ ret' = InvestigationResult(variation_results, concurrent_results)
    /\ pc' = "done"
    /\ last' = "concurrent_results"
    /\ UNCHANGED <<idx, auth_token, sent, calls, faults, test_counter, entry_counter,
                   variation_results, wst, results_queue, concurrent_results>>
    /\ DetailedFrame
    /\ OtherCaseFrame

(***************************************************************************)
(* The objects as constructed (__init__ of the three classes) and the      *)
(* first call of each script's __main__ block.                             *)
(***************************************************************************)
FirstCall(p) ==
    CASE p = "backend" -> "test_register_user"
      [] p = "frontend" -> "simulate_login"
      [] p = "detailed" -> "get_auth_token"

Init ==
    /\ prog \in {"backend", "frontend", "detailed"}
    /\ driver \in {"main", "api"}
    /\ prog = "detailed" => driver = "main"
    /\ pc = IF driver = "main" THEN FirstCall(prog) ELSE "idle"
    /\ idx = 0
    /\ auth_token = None
    /\ hdr = NoHeader
    /\ test_results = << >>
    /\ sent = << >>
    /\ calls = << >>
    /\ last = "none"
    /\ ret = "none"
    /\ faults = 0
    /\ success = "none"
    /\ test_counter = 0
    /\ entry_counter = 0
    /\ variation_results = << >>
    /\ wst = [t \in Threads |-> "new"]
    /\ results_queue = << >>
    /\ concurrent_results = << >>
    /\ staff_answer = << >>

Next ==
    \/ test_register_user
    \/ test_login
    \/ test_get_users
    \/ test_add_staff_valid_data
    \/ test_add_staff_missing_fields
    \/ test_add_staff_invalid_data
    \/ test_add_staff_without_auth
    \/ simulate_login
    \/ test_authentication_validity
    \/ simulate_staff_add_request
    \/ test_different_payloads
    \/ get_auth_token
    \/ test_staff_add_with_variations
    \/ variation
    \/ test_concurrent_requests
    \/ thread_start
    \/ \E t \in Threads : make_request(t)
    \/ thread_join
    \/ collect
    \/ run_investigation

Spec == Init /\ [][Next]_vars


(***************************************************************************)
(* Helpers of the properties.                                              *)
(***************************************************************************)
Last(s) == s[Len(s)]

Main(p) == prog = p /\ driver = "main"

\* The methods run_all_tests calls, in the order of l.227-243.
BackendSequence ==
    << "test_register_user", "test_login", "test_get_users",
       "test_add_staff_valid_data", "test_add_staff_missing_fields",
       "test_add_staff_invalid_data", "test_add_staff_without_auth" >>

\* The names under which a scenario logs its cases, in order.
TestCasesOf(m) ==
    CASE m = "test_register_user" -> << "User Registration" >>
      [] m = "test_login" -> << "User Login" >>
      [] m = "test_get_users" -> << "Get Users" >>
      [] m = "test_add_staff_valid_data" -> << "Add Staff - Valid Data" >>
      [] m = "test_add_staff_missing_fields" ->
            [n \in 1..4 |-> "Add Staff - Missing Fields " \o ToString(n)]
      [] m = "test_add_staff_invalid_data" ->
            [n \in 1..3 |-> "Add Staff - Invalid Data " \o ToString(n)]
      [] m = "test_add_staff_without_auth" -> << "Add Staff - No Auth" >>

RECURSIVE ExpectedNames(_)
ExpectedNames(cs) ==
    IF cs = << >> THEN << >>
    ELSE ExpectedNames(SubSeq(cs, 1, Len(cs) - 1)) \o TestCasesOf(Last(cs))

ResultNames(results) == [n \in 1..Len(results) |-> results[n].test]

AllPassed(results) == \A n \in 1..Len(results) : results[n].success

(***************************************************************************)
(* C1.  The recorded results mirror the executed cases: the names of       *)
(* test_results are, in order, the names of the cases of the scenarios     *)
(* invoked so far, one result for each single scenario and one for each    *)
(* variant of the two matrices.                                            *)
(***************************************************************************)
C1_ResultsMirrorExecutedCases ==
    prog = "backend" => ResultNames(test_results) = ExpectedNames(calls)

(***************************************************************************)
(* C2.  When run_all_tests has ended, it returned True only if every       *)
(* recorded result is a pass and the whole sequence ran; with a recorded   *)
(* failure or an early stop it returned False.                             *)
(***************************************************************************)
C2_TrueOnlyIfAllPassed ==
    (Main("backend") /\ pc = "done") =>
        /\ ret = "True" => AllPassed(test_results) /\ calls = BackendSequence
        /\ (~AllPassed(test_results) \/ calls # BackendSequence) => ret = "False"

\* C2 witness: a run that stopped early on a recorded failure and returned False.
C2_Witness ==
    /\ Main("backend")
    /\ pc = "done"
    /\ ret = "False"
    /\ test_results # << >>
    /\ ~Last(test_results).success
    /\ calls # BackendSequence

(***************************************************************************)
(* C3.  run_investigation returns True only if all ten variations and all  *)
(* five burst requests passed, that is, were answered 200 or 400; an       *)
(* EXCEPTION entry or any other status in either phase makes it return     *)
(* False.                                                                  *)
(***************************************************************************)
C3_TrueOnlyIfEveryRequestPassed ==
    (prog = "detailed" /\ pc = "done" /\ ret = "True") =>
        /\ Len(variation_results) = NumVariations
        /\ \A n \in 1..Len(variation_results) : variation_results[n].success
        /\ Len(concurrent_results) = NumThreads
        /\ \A n \in 1..Len(concurrent_results) :
              concurrent_results[n].status_code \in {200, 400}


\* The scenarios whose failure run_all_tests answers with `return False`.
FatalCases == {"User Registration", "User Login", "Get Users"}

Failed(results, name) ==
    \E n \in 1..Len(results) : results[n].test = name /\ ~results[n].success

(***************************************************************************)
(* C4.  In run_all_tests only a failed login aborts the run: a run that    *)
(* has ended without a failed login executed every case of the declared    *)
(* sequence and reached the summary.                                       *)
(***************************************************************************)
C4_OnlyLoginAborts ==
    (Main("backend") /\ pc = "done" /\ ~Failed(test_results, "User Login")) =>
        /\ calls = BackendSequence
        /\ ret \in {"True", "False"}

(***************************************************************************)
(* C4 as amended.  A failed registration or get-users check aborts         *)
(* run_all_tests exactly as a failed login does: the run has returned      *)
(* False, the failure is the last result and its method the last call; and *)
(* no other recorded failure makes the run return early.                   *)
(***************************************************************************)
C4_FatalCasesAbort ==
    Main("backend") =>
        /\ \A name \in FatalCases :
              Failed(test_results, name) =>
                  /\ pc = "done"
                  /\ ret = "False"
                  /\ Last(test_results).test = name
                  /\ TestCasesOf(Last(calls)) = << name >>
        /\ (pc = "done" /\ ret = "False" /\ calls # BackendSequence) =>
              /\ Last(test_results).test \in FatalCases
              /\ ~Last(test_results).success

\* C4 witness: the registration failed and the run ended there, before the login.
C4_Witness ==
    /\ Main("backend")
    /\ Failed(test_results, "User Registration")
    /\ calls = << "test_register_user" >>
    /\ pc = "done"
    /\ ret = "False"

\* The login method of each script.
LoginMethod == {"test_login", "get_auth_token", "simulate_login"}

LoggedIn == \E n \in 1..Len(calls) : calls[n] \in LoginMethod

(***************************************************************************)
(* C5.  In each runner a failed login step, a 200 answer without a usable  *)
(* token included, ends the run: once the login has run and left no token, *)
(* the runner has returned False and the login request is the last request *)
(* issued.                                                                 *)
(***************************************************************************)
C5_FailedLoginStopsRun ==
    (driver = "main" /\ LoggedIn /\ auth_token = None) =>
        /\ ret = "False"
        /\ Last(sent).op = "POST /token"

(***************************************************************************)
(* C6.  In run_all_tests and run_investigation no POST /staff/add and no   *)
(* GET /users carries a bearer header built while auth_token was None.     *)
(***************************************************************************)
C6_NoBearerNone ==
    (prog \in {"backend", "detailed"} /\ driver = "main") =>
        \A n \in 1..Len(sent) :
            sent[n].op \in {"POST /staff/add", "GET /users"} =>
                sent[n].auth # Bearer(None)

\* The operations of the simulator that need a token.
AuthOps ==
    {"simulate_staff_add_request", "test_authentication_validity",
     "test_different_payloads"}

(***************************************************************************)
(* C7.  Whenever an operation of the simulator that needs a token returns: *)
(* if auth_token was None or empty it sent nothing and did not return      *)
(* True; otherwise a simulate_login came before it and every request it    *)
(* sent carries that token.                                                *)
(***************************************************************************)
C7_NoTokenNoRequest ==
    [][ (prog = "frontend" /\ calls' # calls /\ Last(calls') \in AuthOps) =>
            IF ~Truthy(auth_token)
            THEN sent' = sent /\ last' \in {"False", "None"}
            ELSE /\ "simulate_login" \in { calls[n] : n \in 1..Len(calls) }
                 /\ Len(sent') > Len(sent)
                 /\ \A n \in (Len(sent) + 1)..Len(sent') :
                       sent'[n].auth = Bearer(auth_token) /\ Truthy(auth_token)
      ]_vars

\* C7 witness: an operation refused without a token, then a login, then the
\* same operation sending its request.
C7_Witness ==
    /\ prog = "frontend"
    /\ calls = << "simulate_staff_add_request", "simulate_login",
                  "simulate_staff_add_request" >>
    /\ Len(sent) = 2
    /\ sent[2].auth = Bearer(auth_token)
    /\ Truthy(auth_token)

(***************************************************************************)
(* C8.  In each runner auth_token changes only in the step of the first    *)
(* login, so it is assigned at most once and no step after the login       *)
(* changes it; and every request issued with an Authorization header       *)
(* carries the token of that login.                                        *)
(***************************************************************************)
C8_OneTokenPerRun ==
    [][ driver = "main" =>
            /\ auth_token' # auth_token => ~LoggedIn /\ LoggedIn'
            /\ \A n \in (Len(sent) + 1)..Len(sent') :
                  sent'[n].auth \in {NoHeader, Bearer(auth_token')}
      ]_vars

\* C8 witness: a full investigation whose fifteen requests after the login,
\* the five of the burst among them, carry the token of the login.
C8_Witness ==
    /\ Main("detailed")
    /\ pc = "done"
    /\ auth_token = "tokB"
    /\ Len(sent) = 1 + NumVariations + NumThreads
    /\ \A n \in 2..Len(sent) : sent[n].auth = "Bearer tokB"
    /\ { sent[n].by : n \in 1..Len(sent) } = Threads \cup {-1}

\* The entries posted so far, collected or still queued.
Posted == concurrent_results \o results_queue

EntriesOf(t) == { n \in 1..Len(Posted) : Posted[n].thread_id = t }

BurstCalled == \E n \in 1..Len(calls) : calls[n] = "test_concurrent_requests"

(***************************************************************************)
(* C9.  The burst starts exactly the five workers 0..4; at every moment a  *)
(* worker that has ended has exactly one entry posted and every other      *)
(* worker none; and test_concurrent_requests returns exactly five          *)
(* outcomes, one for each thread id.                                       *)
(***************************************************************************)
C9_OneOutcomePerThread ==
    prog = "detailed" =>
        /\ \A t \in Threads :
              Cardinality(EntriesOf(t)) = IF wst[t] = "done" THEN 1 ELSE 0
        /\ \A n \in 1..Len(Posted) : Posted[n].thread_id \in Threads
        /\ pc \in {"join", "collect"} => \A t \in Threads : wst[t] # "new"
        /\ (pc = "done" /\ BurstCalled) =>
              /\ results_queue = << >>
              /\ Len(concurrent_results) = NumThreads
              /\ { concurrent_results[n].thread_id :
                      n \in 1..Len(concurrent_results) } = Threads

\* C9 witness: the burst returned with the outcomes out of thread order and
\* one of them an EXCEPTION entry.
C9_Witness ==
    /\ prog = "detailed"
    /\ pc = "done"
    /\ Len(concurrent_results) = NumThreads
    /\ concurrent_results[1].thread_id = 3
    /\ concurrent_results[2].thread_id = 0
    /\ \E n \in 1..NumThreads : concurrent_results[n].status_code = EXCEPTION

(***************************************************************************)
(* C10.  The burst is a barrier: a worker exists only once all ten         *)
(* variations are recorded and the variation loop is over, and the main    *)
(* thread drains the queue, computes the summary and returns only when     *)
(* all five workers have ended.                                            *)
(***************************************************************************)
C10_BurstIsBarrier ==
    prog = "detailed" =>
        /\ (\E t \in Threads : wst[t] # "new") =>
              /\ Len(variation_results) = NumVariations
              /\ pc \in {"start", "join", "collect", "done"}
        /\ (pc = "collect" \/ concurrent_results # << >> \/ (pc = "done" /\ BurstCalled)) =>
              \A t \in Threads : wst[t] = "done"

\* C10 witness: the main thread is draining the queue, all workers ended,
\* the last started worker having ended first.
C10_Witness ==
    /\ prog = "detailed"
    /\ pc = "collect"
    /\ Len(concurrent_results) = 1
    /\ concurrent_results[1].thread_id = NumThreads - 1
    /\ \A t \in Threads : wst[t] = "done"


\* A step of a burst worker: one worker goes from started to ended.
WorkerStep == \E t \in Threads : wst[t] = "started" /\ wst'[t] = "done"

(***************************************************************************)
(* C11.  A step of a burst worker writes the result queue and nothing else *)
(* of the investigator: auth_token, test_counter, the headers of the       *)
(* shared session and the locals of the main thread stay as they were; and *)
(* no step between the start of the burst and its end changes auth_token,  *)
(* test_counter or the session headers.                                    *)
(***************************************************************************)
C11_WorkersWriteOnlyQueue ==
    [][ /\ (prog = "detailed" /\ WorkerStep) =>
              /\ Len(results_queue') = Len(results_queue) + 1
              /\ UNCHANGED <<auth_token, test_counter, entry_counter, hdr, pc, idx,
                             variation_results, concurrent_results, calls>>
        /\ (prog = "detailed" /\ pc \in {"start", "join", "collect"}) =>
              UNCHANGED <<auth_token, test_counter, hdr>>
      ]_vars

\* C11 witness: all five workers have posted and ended, the drain has not
\* begun, and token, counter and session headers are those of the burst's start.
C11_Witness ==
    /\ prog = "detailed"
    /\ pc = "collect"
    /\ Len(results_queue) = NumThreads
    /\ concurrent_results = << >>
    /\ auth_token = "tokA"
    /\ test_counter = NumVariations
    /\ hdr = NoHeader


\* The outcomes the interface accepts for a staff creation with a valid
\* payload: 200, or 400 whose detail holds "already registered".
CreatedOrDuplicate(r) ==
    /\ ~r.raised
    /\ \/ r.status = 200
       \/ r.status = 400 /\ r.dup

(***************************************************************************)
(* C12.  A staff creation with a valid payload counts as passed exactly    *)
(* when it was answered 200, or 400 with an "already registered" detail:   *)
(* the value test_add_staff_valid_data returns, the value                  *)
(* simulate_staff_add_request returns and the success flag of the          *)
(* investigator's standard valid request all agree with that.              *)
(***************************************************************************)
C12_PassIffCreatedOrDuplicate ==
    staff_answer # << >> =>
        /\ (prog = "backend" /\ Last(calls) = "test_add_staff_valid_data") =>
              (last = "True" <=> CreatedOrDuplicate(staff_answer[1]))
        /\ (prog = "frontend" /\ Last(calls) = "simulate_staff_add_request") =>
              (last = "True" <=> CreatedOrDuplicate(staff_answer[1]))
        /\ (prog = "detailed" /\ Len(variation_results) = 1) =>
              (variation_results[1].success <=> CreatedOrDuplicate(staff_answer[1]))


\* The last n records of the list results (all of them when it has fewer).
LastRecords(results, n) ==
    SubSeq(results, IF Len(results) > n THEN Len(results) - n + 1 ELSE 1, Len(results))

(***************************************************************************)
(* C13.  test_add_staff_missing_fields runs its 4 payload variants: when   *)
(* it has returned, it has sent 4 more requests and the last 4 records are *)
(* "Add Staff - Missing Fields 1" to "... 4", in this order.               *)
(***************************************************************************)
C13_AllFourVariantsRecorded ==
    [][ (prog = "backend" /\ calls' = Append(calls, "test_add_staff_missing_fields")) =>
            /\ Len(sent') = Len(sent) + 4
            /\ Len(test_results') = Len(test_results) + 4
            /\ ResultNames(LastRecords(test_results', 4)) =
                  TestCasesOf("test_add_staff_missing_fields")
      ]_vars

(***************************************************************************)
(* C14.  test_add_staff_without_auth sends its request without an          *)
(* Authorization header and leaves the headers of the session as they were *)
(* before the call, whether the request returned or raised.                *)
(***************************************************************************)
C14_HeadersRestored ==
    [][ (prog = "backend" /\ calls' = Append(calls, "test_add_staff_without_auth")) =>
            /\ Last(sent').auth = NoHeader
            /\ hdr' = hdr
      ]_vars

(***************************************************************************)
(* C15.  A run of run_all_tests in which every answer was the acceptable   *)
(* one sends POST /register first, runs the seven methods in the order of  *)
(* BackendSequence and ends with exactly 12 records.                       *)
(***************************************************************************)
C15_FullRunRecordsTwelve ==
    (Main("backend") /\ pc = "done" /\ faults = 0) =>
        /\ sent # << >>
        /\ sent[1].op = "POST /register"
        /\ calls = BackendSequence
        /\ Len(test_results) = 12


\* The variations whose username is built from the counter (from 0).
CounterDerived == {0, 3, 8, 9}

(***************************************************************************)
(* C16.  Every variation adds one to test_counter, and a variation whose   *)
(* username is built from the counter is sent as test<k>@example.com with  *)
(* k the value of test_counter when its request is issued.                 *)
(***************************************************************************)
C16_UsernameIsCounterAtRequest ==
    [][ (prog = "detailed" /\ pc = "variation") =>
            /\ test_counter' = test_counter + 1
            /\ idx \in CounterDerived => Last(sent').user = TestUser(test_counter')
      ]_vars


(***************************************************************************)
(* The burst under its scheduling: the main thread goes on while it has a  *)
(* step to take (l.268-284), and every started worker runs to its end,     *)
(* its HTTP call returning a response or raising (l.234-264).              *)
(***************************************************************************)
SpecFair ==
    /\ Init
    /\ [][Next]_vars
    /\ WF_vars(thread_start)
    /\ WF_vars(thread_join)
    /\ WF_vars(collect)
    /\ WF_vars(run_investigation)
    /\ \A t \in Threads : WF_vars(make_request(t))

\* test_concurrent_requests has returned: every worker has ended, the queue is
\* drained and the list holds one entry per thread.
BurstReturned ==
    /\ prog = "detailed"
    /\ pc = "done"
    /\ \A t \in Threads : wst[t] = "done"
    /\ results_queue = << >>
    /\ Len(concurrent_results) = NumThreads

(***************************************************************************)
(* C17.  test_concurrent_requests always terminates: once the start loop   *)
(* has begun, every worker ends (also one whose request raised or whose    *)
(* body was no JSON), the 5 joins return and the drain loop ends with the  *)
(* queue empty.                                                            *)
(***************************************************************************)
C17_BurstTerminates ==
    (prog = "detailed" /\ pc = "start") ~> BurstReturned

C17_Witness ==
    /\ BurstReturned
    /\ \E n \in 1..Len(concurrent_results) :
          concurrent_results[n].status_code = EXCEPTION

====
